---- MODULE Spec2Model ----
(***************************************************************************)
(* gitmemos: the synchronisation and cache-coherence engine.               *)
(*                                                                         *)
(*   - the webhook route (src/src/app/api/webhook/github/route.ts) and     *)
(*     the second webhook handler (src/unnamed/part_000);                  *)
(*   - the issue provider's syncIssues (src/src/types/supabase.ts);        *)
(*   - the sync ledger (table sync_history), the issue and label tables,   *)
(*     and the key-value cache they invalidate.                            *)
(*                                                                         *)
(* Strings that the code takes apart (cache keys, signatures) are          *)
(* sequences of one-character strings; timestamps are milliseconds.        *)
(***************************************************************************)
EXTENDS Integers, Sequences, FiniteSets, TLC

VARIABLES
    now,              \* the clock: Date.now() / new Date()
    secret,           \* process.env.GITHUB_WEBHOOK_SECRET
    issues,           \* table issues: a set of rows
    labels,           \* table labels: a set of rows
    sync_history,     \* table sync_history: a set of rows
    nextId,           \* the id the next sync_history row gets
    cache,            \* cacheManager: key -> entry
    configRef,        \* the provider's configRef.current
    lastSyncTimeRef,  \* the provider's lastSyncTimeRef.current
    state,            \* the provider's React state: issues, loading
    last,             \* the last operation and how it ended
    ops,              \* operations run so far
    flight,           \* the locals of a syncIssues call between its awaits
    written           \* the last write to the issue table: when, and what

vars == <<now, secret, issues, labels, sync_history, nextId, cache, configRef,
          lastSyncTimeRef, state, last, ops, flight, written>>

----------------------------------------------------------------------------
(* Bounds of the model *)

\* Milliseconds the clock advances in one Tick.
TickMs == 60000
\* Ticks of the clock in one behaviour.
MaxTicks == 1
\* Operations in one behaviour of Spec.
MaxOps == 2
\* recordSync calls in one behaviour of SpecLedger.
MaxLedgerOps == 3
\* Steps of syncIssues and deliveries in one behaviour of SpecRace.
MaxRaceOps == 4
\* Longest issue list SpecMerge merges.
MaxMergeLen == 2
\* recordSync calls begun in one behaviour of SpecPrune.
MaxPruneInserts == 3
\* Writers (syncs, deliveries) in one behaviour of SpecStore.
MaxStoreOps == 3
\* Deliveries in one behaviour of SpecTwin.
MaxTwinDeliveries == 3
\* syncIssues calls in one behaviour of SpecCooldown.
MaxSyncCalls == 3
\* Milliseconds the clock advances in one step of SpecCooldown, and the steps.
CooldownTickMs == 20000
MaxCooldownTicks == 4

(* Program constants *)

\* allRecords.length > 20, allRecords.slice(20)
KeepRecords == 20
\* timeSinceLastSync < 60000
CooldownMs == 60000
\* useRef<number>(0)
InitialLastSyncTime == 0

\* The clock's first value: any Date.now() of this century is far more than
\* CooldownMs after lastSyncTimeRef's initial 0.
Epoch == 10 * CooldownMs

\* null / undefined, for a value that is otherwise a string (a sequence of
\* characters); a missing number is 0, a missing object an empty sequence.
NoValue == <<"null">>
\* null in a column or field the model keeps as an atom
NoText == "null"

\* !s for a string
Falsy(s) == s = NoValue \/ s = <<>>

----------------------------------------------------------------------------
(* Strings *)

Colon == <<":">>

StartsAt(s, sub, i) ==
    \A j \in 1..Len(sub) : i + j - 1 <= Len(s) /\ s[i + j - 1] = sub[j]

\* String.prototype.includes
Includes(s, sub) ==
    \E i \in 1..(Len(s) - Len(sub) + 1) : StartsAt(s, sub, i)

\* String.prototype.trim, on the strings of the model (blanks are " ")
RECURSIVE TrimLeft(_)
TrimLeft(s) ==
    IF s # <<>> /\ Head(s) = " " THEN TrimLeft(Tail(s)) ELSE s

RECURSIVE TrimRight(_)
TrimRight(s) ==
    IF s # <<>> /\ s[Len(s)] = " " THEN TrimRight(SubSeq(s, 1, Len(s) - 1)) ELSE s

trim(s) == TrimRight(TrimLeft(s))

\* Math.ceil(a / b) for a >= 0, b > 0
Ceil(a, b) == (a + b - 1) \div b

----------------------------------------------------------------------------
(* Tenants *)

Tenant(o, r) == [owner |-> o, repo |-> r]
T1 == Tenant(<<"a">>, <<"b">>)
\* a second tenant whose "owner:repo" contains T1's
T2 == Tenant(<<"x", "a">>, <<"b">>)
Tenants == {T1, T2}


----------------------------------------------------------------------------
(* The sync ledger: table sync_history *)

OfTenant(rows, t) == {r \in rows : r.owner = t.owner /\ r.repo = t.repo}

\* .order('last_sync_at', { ascending: false }) then .slice(20): every set of
\* rows that can follow the first `keep` in some descending order (rows of
\* equal last_sync_at come in an order the code does not fix).
SliceAfter(all, keep) ==
    LET newer(r) == Cardinality({x \in all : x.last_sync_at > r.last_sync_at})
        notOlder(r) == Cardinality({x \in all : x.last_sync_at >= r.last_sync_at})
        sure == {r \in all : newer(r) >= keep}
        tied == {r \in all : newer(r) < keep /\ notOlder(r) > keep}
        m == Cardinality(all) - keep - Cardinality(sure)
    IN  IF Cardinality(all) <= keep THEN {{}}
        ELSE {sure \cup D : D \in {E \in SUBSET tied : Cardinality(E) = m}}

SyncRow(id, t, status, issuesSynced, errorMessage, syncType, at) ==
    [id |-> id, owner |-> t.owner, repo |-> t.repo, status |-> status,
     issues_synced |-> issuesSynced, error_message |-> errorMessage,
     sync_type |-> syncType, last_sync_at |-> at]

\* What a store call of recordSync can answer with an error.
LedgerErrs == {"none", "insert", "select", "delete"}

PruneMutantKeepAll(hist, t) == {hist}

\* The pruning of recordSync: the tables it can leave.
Prune(hist, t) ==
    LET allRecords == OfTenant(hist, t)
    IN  IF Cardinality(allRecords) > KeepRecords
        THEN {hist \ D : D \in SliceAfter(allRecords, KeepRecords)}
        ELSE {hist}

\* recordSync: the tables it can leave. err names the store call that answers
\* with an error; every error is logged and swallowed.
recordSync(hist, id, t, status, issuesSynced, errorMessage, syncType, at, err) ==
    LET inserted == hist \cup
            {SyncRow(id, t, status, issuesSynced, errorMessage, syncType, at)}
    IN  IF err = "insert" THEN {hist}
        ELSE IF err = "select" THEN {inserted}
        ELSE IF err = "delete" /\ Cardinality(OfTenant(inserted, t)) > KeepRecords
             THEN {inserted}
        ELSE Prune(inserted, t)

----------------------------------------------------------------------------
(* The store: tables issues and labels *)

Matches(r, rec, keyCols) == \A c \in keyCols : r[c] = rec[c]

IssueKeyCols == {"owner", "repo", "issue_number"}
LabelKeyCols == {"owner", "repo", "name"}


IssueDefaults(at) ==
    [body |-> NoValue, labels |-> <<>>, created_at |-> at, updated_at |-> at]
LabelDefaults(at) ==
    [description |-> NoValue, created_at |-> at, updated_at |-> at]

\* A row the table refuses: a required column is null.
IssueRefused(rec) ==
    rec.issue_number = 0 \/ rec.title = NoValue \/ rec.state = NoValue


\* .upsert(rec, { onConflict: keyCols }): the columns given overwrite those of
\* the row with the same key, the others are kept; without such a row, the
\* row is inserted with the table's defaults.
UpsertMutantKeep(tbl, rec, keyCols, defaults) ==
    IF \E r \in tbl : Matches(r, rec, keyCols) THEN tbl ELSE tbl \cup {rec @@ defaults}

Upsert(tbl, rec, keyCols, defaults) ==
    LET existing == {r \in tbl : Matches(r, rec, keyCols)}
    IN  IF existing = {} THEN tbl \cup {rec @@ defaults}
        ELSE (tbl \ existing) \cup {rec @@ r : r \in existing}

DeleteMatchMutantTenant(tbl, rec) ==
    {r \in tbl : r.owner # rec.owner \/ r.repo # rec.repo}

\* .delete().match(rec)
DeleteMatch(tbl, rec) == {r \in tbl : ~Matches(r, rec, DOMAIN rec)}

\* .select().eq(...).single(): the row, or null
SelectSingle(tbl, rec) ==
    LET found == {r \in tbl : Matches(r, rec, DOMAIN rec)}
    IN  IF Cardinality(found) = 1 THEN <<CHOOSE r \in found : TRUE>> ELSE <<>>

Elems(seq) == {seq[i] : i \in 1..Len(seq)}

\* labels.map(label => label.name)
RECURSIVE Names(_)
Names(ls) == IF ls = <<>> THEN <<>> ELSE <<Head(ls).name>> \o Names(Tail(ls))

\* labels.map(label => label.name.trim())
RECURSIVE TrimmedNames(_)
TrimmedNames(ls) ==
    IF ls = <<>> THEN <<>> ELSE <<trim(Head(ls).name)>> \o TrimmedNames(Tail(ls))

\* .contains('labels', [name])
ContainsLabel(tbl, t, name) == {r \in OfTenant(tbl, t) : name \in Elems(r.labels)}

\* .update({ updated_at }) of the rows with these issue numbers
TouchIssues(tbl, t, numbers, at) ==
    {IF r \in OfTenant(tbl, t) /\ r.issue_number \in numbers
     THEN [r EXCEPT !.updated_at = at] ELSE r : r \in tbl}

----------------------------------------------------------------------------
(* The cache *)

NumChar(n) == <<"0", "1", "2", "3", "4", "5", "6", "7", "8", "9">>[n + 1]

\* `${owner}:${repo}`
TenantString(t) == t.owner \o Colon \o t.repo

\* CACHE_KEYS.ISSUES(owner, repo, page, labels)
CACHE_KEYS_ISSUES(t, page, filter) ==
    <<"issues">> \o Colon \o TenantString(t) \o Colon \o <<NumChar(page)>>
        \o Colon \o filter

\* `issue:${owner}:${repo}:${issue.number}`
SingleIssueCacheKey(t, number) ==
    <<"issue">> \o Colon \o TenantString(t) \o Colon \o <<NumChar(number)>>

\* cacheManager.remove(key)
CacheRemove(c, keys) == [k \in (DOMAIN c) \ keys |-> c[k]]

\* cacheManager.set(key, value)
CacheSet(c, key, value, stamp, t) ==
    [k \in (DOMAIN c) \cup {key} |->
        IF k = key THEN [value |-> value, setBy |-> stamp, tenant |-> t] ELSE c[k]]

----------------------------------------------------------------------------
(* Webhook requests *)

Key1 == <<"k", "1">>
Key2 == <<"k", "2">>

Bug == <<"bug">>
Ui == <<"ui">>
TitleA == <<"A">>
TitleB == <<"B">>
Open == <<"open">>

LabelObj(name, color) == [name |-> name, color |-> color, description |-> NoValue]
IssueObj(number, title, labelObjs) ==
    [number |-> number, title |-> title, body |-> NoValue, state |-> Open,
     labels |-> labelObjs, created_at |-> 0]

\* The parsed payload; issue and label hold the object, or nothing.
IssuesEvent(t, issue) ==
    [repository |-> t, action |-> "opened", issue |-> <<issue>>, label |-> <<>>]
LabelEvent(t, action, label) ==
    [repository |-> t, action |-> action, issue |-> <<>>, label |-> <<label>>]
OtherEvent(t) ==
    [repository |-> t, action |-> "none", issue |-> <<>>, label |-> <<>>]

IssuePayloads ==
    {IssuesEvent(T1, IssueObj(1, TitleA, <<>>)),
     IssuesEvent(T1, IssueObj(1, TitleB, <<LabelObj(Bug, "red")>>)),
     IssuesEvent(T1, IssueObj(2, TitleA, <<LabelObj(Bug, "red")>>)),
     IssuesEvent(T2, IssueObj(1, TitleA, <<LabelObj(Bug, "red")>>)),
     IssuesEvent(T1, IssueObj(1, NoValue, <<>>))}
LabelPayloads ==
    {LabelEvent(T1, "created", LabelObj(Bug, "red")),
     LabelEvent(T1, "edited", LabelObj(Bug, "blue")),
     LabelEvent(T1, "deleted", LabelObj(Bug, "red")),
     LabelEvent(T2, "created", LabelObj(Bug, "red"))}
OtherPayloads == {OtherEvent(T1)}
Payloads == IssuePayloads \cup LabelPayloads \cup OtherPayloads

\* The x-github-event header the upstream sends with a payload.
EventOf(p) ==
    IF p.issue # <<>> THEN "issues" ELSE IF p.label # <<>> THEN "label" ELSE "push"

Hex == <<"0", "1", "2", "3", "4", "5", "6", "7", "8", "9", "a", "b", "c", "d", "e", "f">>
Hex2(n) == <<Hex[(n \div 16) + 1], Hex[(n % 16) + 1]>>

\* The payload's bytes, as a number: one-to-one on Payloads.
PayloadCode(p) ==
    LET tc == IF p.repository = T1 THEN 0 ELSE 1
        lc(ls) == IF ls = <<>> THEN 0 ELSE 1
        ic(i) == (i.number - 1) + 2 * ((IF i.title = TitleA THEN 0
                                        ELSE IF i.title = TitleB THEN 1 ELSE 2)
                                       + 3 * lc(i.labels))
        ac(a) == IF a = "created" THEN 0 ELSE IF a = "edited" THEN 1 ELSE 2
        body == IF p.issue # <<>> THEN 3 * ic(p.issue[1])
                ELSE IF p.label # <<>>
                     THEN 1 + 3 * (ac(p.action) + 3 * (IF p.label[1].color = "red" THEN 0 ELSE 1))
                ELSE 2
    IN  tc + 2 * body

\* hmac.update(payload).digest('hex') of the payload with this code:
\* one-to-one in (key, payload)
HmacHex(key, code) == <<key[2]>> \o Hex2(code)

\* 'sha256=' + digest
SignCode(key, code) == <<"sha256=">> \o HmacHex(key, code)
Sign(key, p) == SignCode(key, PayloadCode(p))

Request(sig, event, p) == [signature |-> sig, event |-> event, payload |-> p]

\* Deliveries of the upstream, signed with the key.
SignedRequests ==
    {Request(Sign(Key1, p), EventOf(p), p) : p \in Payloads}
    \cup {Request(Sign(Key1, OtherEvent(T1)), e, OtherEvent(T1)) : e \in {"issues", "label"}}

ForgedPayload == IssuesEvent(T1, IssueObj(1, TitleB, <<>>))

\* Requests without the right signature: none, one of the same length made
\* with another key, one of another payload, a truncated one.
ForgedRequests ==
    {Request(sig, "issues", ForgedPayload) :
        sig \in {NoValue, Sign(Key2, ForgedPayload), Sign(Key1, OtherEvent(T1)),
                 SubSeq(Sign(Key1, ForgedPayload), 1, 3)}}



VerifyMutantFailOpen(payload, signature) == "true"

\* verifyGitHubWebhook: "true", "false", or "throw" (crypto.timingSafeEqual
\* raises a RangeError on buffers of different lengths).
verifyGitHubWebhook(payload, signature) ==
    IF Falsy(secret) THEN "false"
    ELSE LET calculatedSignature == Sign(secret, payload)
         IN  IF Len(signature) # Len(calculatedSignature) THEN "throw"
             ELSE IF signature = calculatedSignature THEN "true"
             ELSE "false"

----------------------------------------------------------------------------
(* What the model remembers of the last operation *)

LastDefault ==
    [op |-> "init", handler |-> "-", tenant |-> T1, event |-> "-", action |-> "-",
     status |-> 0, error |-> NoText, parsed |-> FALSE, wrote |-> FALSE,
     record |-> "none", recordErr |-> "none", number |-> 0, name |-> NoValue,
     passedGuard |-> FALSE, wait |-> 0, fetched |-> FALSE, since |-> 0,
     isFullSync |-> FALSE, totalSynced |-> 0, failAt |-> "none", calledAt |-> 0,
     raised |-> FALSE, syncType |-> NoText, authentic |-> FALSE,
     signed |-> FALSE, admittedAt |-> 0]

\* admittedAt, the start of the last syncIssues call that passed the cooldown
\* guard (0: none yet), is carried from operation to operation.
Last(fields) == fields @@ [admittedAt |-> last.admittedAt] @@ LastDefault

----------------------------------------------------------------------------
(* The webhook route: src/src/app/api/webhook/github/route.ts *)

Outcome(kind, error, iss, labs, c, synced, wrote) ==
    [kind |-> kind, error |-> error, issues |-> iss, labels |-> labs, cache |-> c,
     synced |-> synced, wrote |-> wrote]

\* issueData of the route
RouteIssueData(t, issue, at) ==
    [owner |-> trim(t.owner), repo |-> trim(t.repo),
     issue_number |-> issue.number,
     title |-> trim(issue.title),
     body |-> IF Falsy(issue.body) \/ trim(issue.body) = <<>> THEN <<>> ELSE trim(issue.body),
     state |-> trim(issue.state),
     labels |-> TrimmedNames(issue.labels),
     github_created_at |-> issue.created_at,
     created_at |-> at,
     updated_at |-> at]

\* labelData of the route
RouteLabelData(t, label, at) ==
    [owner |-> t.owner, repo |-> t.repo, name |-> label.name, color |-> label.color,
     description |-> label.description, updated_at |-> at]

\* The cache keys the route removes after saving an issue.
RouteCacheKeys(t, number) ==
    {CACHE_KEYS_ISSUES(t, 1, <<>>), SingleIssueCacheKey(t, number)}

\* The inner try block of the route's POST. fail: the store call errors.
RouteEvent(req, fail, at) ==
    LET p == req.payload
        t == p.repository
        Threw(msg) == Outcome("threw", msg, issues, labels, cache, 0, FALSE)
    IN  IF req.event = "issues" THEN
            IF p.issue = <<>> THEN Threw("TypeError")
            ELSE LET issue == p.issue[1]
                 IN  IF issue.number = 0 \/ Falsy(issue.title) \/ Falsy(issue.state)
                     THEN Threw("Missing required issue fields")
                     ELSE IF fail = "store" THEN Threw("store error")
                     ELSE Outcome("ok", NoText,
                                  Upsert(issues, RouteIssueData(t, issue, at),
                                         IssueKeyCols, IssueDefaults(at)),
                                  labels,
                                  CacheRemove(cache, RouteCacheKeys(t, issue.number)),
                                  1, TRUE)
        ELSE IF req.event = "label" THEN
            IF p.label = <<>> THEN Threw("TypeError")
            ELSE LET label == p.label[1]
                 IN  IF fail = "store" THEN Threw("store error")
                     ELSE IF p.action = "deleted"
                     THEN Outcome("ok", NoText, issues,
                                  DeleteMatch(labels, [owner |-> t.owner, repo |-> t.repo,
                                                       name |-> label.name]),
                                  cache, 0, TRUE)
                     ELSE Outcome("ok", NoText, issues,
                                  Upsert(labels, RouteLabelData(t, label, at),
                                         LabelKeyCols, LabelDefaults(at)),
                                  cache, 0, TRUE)
        ELSE Outcome("norecord", NoText, issues, labels, cache, 0, FALSE)

RouteFails == {"none", "store"}

\* The request's signature header is "sha256=" + hex HMAC-SHA256(secret, payload).
Authentic(req) == ~Falsy(secret) /\ req.signature = Sign(secret, req.payload)

Rejected(handler, req, status, error) ==
    /\ last' = Last([op |-> "webhook", handler |-> handler,
                     signed |-> ~Falsy(req.signature), authentic |-> Authentic(req),
                     status |-> status, error |-> error])
    /\ UNCHANGED <<issues, labels, sync_history, nextId, cache>>

\* POST of the route
WebhookRoute(req, fail, lerr) ==
    /\ ops' = ops + 1
    /\ UNCHANGED <<now, secret, configRef, lastSyncTimeRef, state>>
    /\ LET verdict == IF Falsy(req.signature) THEN "false"
                      ELSE verifyGitHubWebhook(req.payload, req.signature)
       IN  IF verdict = "false" THEN Rejected("route", req, 401, "Invalid signature")
           ELSE IF verdict = "throw"
           THEN Rejected("route", req, 500, "Failed to process webhook")
           ELSE LET o == RouteEvent(req, fail, now)
                    t == req.payload.repository
                    record == IF o.kind = "ok" THEN "success"
                              ELSE IF o.kind = "threw" THEN "failed" ELSE "none"
                IN  /\ issues' = o.issues
                    /\ labels' = o.labels
                    /\ cache' = o.cache
                    /\ IF record = "none"
                       THEN UNCHANGED <<sync_history, nextId>>
                       ELSE /\ nextId' = nextId + 1
                            /\ \E h \in recordSync(sync_history, nextId, t, record,
                                                   o.synced, o.error, NoText, now, lerr) :
                                    sync_history' = h
                    /\ last' = Last([op |-> "webhook", handler |-> "route",
                                     number |-> IF req.payload.issue = <<>> THEN 0
                                                ELSE req.payload.issue[1].number,
                                     name |-> IF req.payload.label = <<>> THEN NoValue
                                              ELSE req.payload.label[1].name,
                                     signed |-> ~Falsy(req.signature),
                                     authentic |-> Authentic(req), tenant |-> t,
                                     event |-> req.event, action |-> req.payload.action,
                                     status |-> IF o.kind = "threw" THEN 500 ELSE 200,
                                     error |-> IF o.kind = "threw"
                                               THEN "Failed to process webhook" ELSE NoText,
                                     parsed |-> TRUE, wrote |-> o.wrote,
                                     record |-> record, recordErr |-> lerr])

----------------------------------------------------------------------------
(* The second webhook handler: src/unnamed/part_000 *)


\* The row the handler upserts for an issue; existingIssue is what its select
\* returned (nothing when the select erred: its error is not read).
PartIssueData(t, issue, existingIssue, at) ==
    [owner |-> t.owner, repo |-> t.repo,
     issue_number |-> issue.number,
     title |-> issue.title,
     body |-> issue.body,
     state |-> issue.state,
     labels |-> Names(issue.labels),
     github_created_at |-> issue.created_at,
     created_at |-> IF existingIssue # <<>> THEN existingIssue[1].created_at ELSE at,
     updated_at |-> at]

PartLabelData(t, label, existingLabel, at) ==
    [owner |-> t.owner, repo |-> t.repo, name |-> label.name, color |-> label.color,
     description |-> label.description,
     created_at |-> IF existingLabel # <<>> THEN existingLabel[1].created_at ELSE at,
     updated_at |-> at]


\* The inner try block of the handler's POST. fail: the store call that errs;
\* done: the issues the update loop touched before the update that erred.
PartEvent(req, fail, done, at) ==
    LET p == req.payload
        t == p.repository
        Threw(msg, iss, labs, wrote) == Outcome("threw", msg, iss, labs, cache, 0, wrote)
    IN  IF req.event = "issues" THEN
            IF p.issue = <<>> THEN Threw("Missing issue data", issues, labels, FALSE)
            ELSE LET issue == p.issue[1]
                     existingIssue ==
                        IF fail = "select" THEN <<>>
                        ELSE SelectSingle(issues, [owner |-> t.owner, repo |-> t.repo,
                                                   issue_number |-> issue.number])
                     row == PartIssueData(t, issue, existingIssue, at)
                 IN  IF fail = "upsert" \/ IssueRefused(row)
                     THEN Threw("store error", issues, labels, FALSE)
                     ELSE Outcome("ok", NoText,
                                  Upsert(issues, row, IssueKeyCols, IssueDefaults(at)),
                                  labels, cache, 1, TRUE)
        ELSE IF req.event = "label" THEN
            IF p.label = <<>> THEN Outcome("ok", NoText, issues, labels, cache, 1, FALSE)
            ELSE LET label == p.label[1]
                     existingLabel ==
                        IF fail = "select" THEN <<>>
                        ELSE SelectSingle(labels, [owner |-> t.owner, repo |-> t.repo,
                                                   name |-> label.name])
                     labs == Upsert(labels, PartLabelData(t, label, existingLabel, at),
                                    LabelKeyCols, LabelDefaults(at))
                     affected == {r.issue_number : r \in ContainsLabel(issues, t, label.name)}
                 IN  IF fail = "upsert" THEN Threw("store error", issues, labels, FALSE)
                     ELSE IF fail = "fetch" THEN Threw("store error", issues, labs, TRUE)
                     ELSE IF fail = "update"
                     THEN Threw("store error", TouchIssues(issues, t, done, at), labs, TRUE)
                     ELSE Outcome("ok", NoText, TouchIssues(issues, t, affected, at),
                                  labs, cache, 1, TRUE)
        ELSE Outcome("unsupported", NoText, issues, labels, cache, 0, FALSE)

\* POST of the handler
WebhookPart(req, fail, done, lerr) ==
    /\ ops' = ops + 1
    /\ UNCHANGED <<now, secret, configRef, lastSyncTimeRef, state>>
    /\ IF Falsy(req.signature) THEN Rejected("part", req, 400, "Missing signature")
       ELSE LET verdict == verifyGitHubWebhook(req.payload, req.signature)
       IN  IF verdict = "false" THEN Rejected("part", req, 401, "Invalid signature")
           ELSE IF verdict = "throw" THEN Rejected("part", req, 500, "RangeError")
           ELSE LET o == PartEvent(req, fail, done, now)
                    t == req.payload.repository
                    record == IF o.kind = "ok" THEN "success"
                              ELSE IF o.kind = "threw" THEN "failed" ELSE "none"
                IN  /\ issues' = o.issues
                    /\ labels' = o.labels
                    /\ cache' = o.cache
                    /\ IF record = "none"
                       THEN UNCHANGED <<sync_history, nextId>>
                       ELSE /\ nextId' = nextId + 1
                            /\ \E h \in recordSync(sync_history, nextId, t, record,
                                                   o.synced, o.error, "webhook", now, lerr) :
                                    sync_history' = h
                    /\ last' = Last([op |-> "webhook", handler |-> "part",
                                     number |-> IF req.payload.issue = <<>> THEN 0
                                                ELSE req.payload.issue[1].number,
                                     name |-> IF req.payload.label = <<>> THEN NoValue
                                              ELSE req.payload.label[1].name,
                                     signed |-> ~Falsy(req.signature),
                                     authentic |-> Authentic(req), tenant |-> t,
                                     event |-> req.event, action |-> req.payload.action,
                                     status |-> IF o.kind = "threw" THEN 500
                                                ELSE IF o.kind = "unsupported" THEN 400
                                                ELSE 200,
                                     error |-> IF o.kind = "threw" THEN o.error
                                               ELSE IF o.kind = "unsupported"
                                               THEN "Unsupported event type" ELSE NoText,
                                     parsed |-> TRUE, wrote |-> o.wrote,
                                     record |-> record, recordErr |-> lerr])

----------------------------------------------------------------------------
(* The provider's syncIssues: src/src/types/supabase.ts *)

\* What octokit.rest.issues.listForRepo can return.
UpstreamLists ==
    {<<>>,
     <<IssueObj(2, TitleA, <<LabelObj(Bug, "red")>>), IssueObj(1, TitleB, <<>>)>>}

\* What octokit.rest.issues.listLabelsForRepo can return.
UpstreamLabels == {<<>>, <<LabelObj(Bug, "blue"), LabelObj(Ui, "red")>>}

\* data.map(issue => ({...})): the provider's issue objects
ToIssue(i) ==
    [number |-> i.number, title |-> i.title, body |-> i.body,
     created_at |-> i.created_at, github_created_at |-> i.created_at,
     state |-> i.state, labels |-> i.labels]

RECURSIVE ToIssues(_)
ToIssues(data) ==
    IF data = <<>> THEN <<>> ELSE <<ToIssue(Head(data))>> \o ToIssues(Tail(data))

\* saveLabel of @/lib/supabase-client: reconcileLabel, created_at kept
saveLabel(tbl, t, label, at) ==
    Upsert(tbl, [owner |-> t.owner, repo |-> t.repo, name |-> label.name,
                 color |-> label.color, description |-> label.description,
                 updated_at |-> at],
           LabelKeyCols, LabelDefaults(at))

\* The row saveIssues upserts for an issue (no created_at: the stored one is kept).
SaveIssueData(t, issue, at) ==
    [owner |-> t.owner, repo |-> t.repo,
     issue_number |-> issue.number, title |-> issue.title,
     body |-> issue.body, state |-> issue.state,
     labels |-> Names(issue.labels),
     github_created_at |-> issue.github_created_at,
     updated_at |-> at]

\* saveIssues of @/lib/supabase-client: reconcileIssue for each, created_at kept
RECURSIVE saveIssues(_, _, _, _)
saveIssues(tbl, t, list, at) ==
    IF list = <<>> THEN tbl
    ELSE saveIssues(
            Upsert(tbl, SaveIssueData(t, Head(list), at), IssueKeyCols, IssueDefaults(at)),
            t, Tail(list), at)

\* checkSyncStatus of @/lib/supabase-client: lastSyncAt, the last_sync_at of
\* the tenant's newest successful record, or 0 (null) without one
checkSyncStatus(hist, t) ==
    LET good == {r \in OfTenant(hist, t) : r.status = "success"}
    IN  IF good = {} THEN 0
        ELSE CHOOSE m \in {r.last_sync_at : r \in good} :
                \A r \in good : r.last_sync_at <= m

IsFullSyncMutantNever(lastSyncAt) == FALSE

\* const isFullSync = !syncStatus?.lastSyncAt
IsFullSync(lastSyncAt) == lastSyncAt = 0

SinceParamMutantStale(lastSyncAt) == IF lastSyncAt = 0 THEN 0 ELSE lastSyncAt - 1

\* params.since: the cursor, or 0 when params has no since
SinceParam(lastSyncAt) ==
    IF ~IsFullSync(lastSyncAt) /\ lastSyncAt # 0 THEN lastSyncAt ELSE 0

\* new Map(prev.issues.map(...)), then set() of each fetched issue, then
\* Array.from(values()): a known number keeps its place, a new one is appended
MapSetMutantAppend(list, issue) ==
    SelectSeq(list, LAMBDA x : x.number # issue.number) \o <<issue>>

RECURSIVE MapSet(_, _)
MapSet(list, issue) ==
    IF list = <<>> THEN <<issue>>
    ELSE IF Head(list).number = issue.number THEN <<issue>> \o Tail(list)
    ELSE <<Head(list)>> \o MapSet(Tail(list), issue)

RECURSIVE MapSetAll(_, _)
MapSetAll(list, fetched) ==
    IF fetched = <<>> THEN list
    ELSE MapSetAll(MapSet(list, Head(fetched)), Tail(fetched))

MergeIssuesMutantAlwaysMerge(prevIssues, fetched, isFullSync) ==
    MapSetAll(MapSetAll(<<>>, prevIssues), fetched)

MergeIssues(prevIssues, fetched, isFullSync) ==
    IF ~isFullSync THEN MapSetAll(MapSetAll(<<>>, prevIssues), fetched) ELSE fetched

\* The keys the sync removes: key.includes(`${owner}:${repo}`)
SyncCacheKeys(c, t) == {k \in DOMAIN c : Includes(k, TenantString(t))}

LabelOutcomes == {"ok", "false", "throw"}

\* Math.ceil((60000 - timeSinceLastSync) / 1000)
WaitSeconds(timeSinceLastSync) == Ceil(CooldownMs - timeSinceLastSync, 1000)

GuardMutantOff(timeSinceLastSync) == FALSE

GuardMutantInclusive(timeSinceLastSync) == timeSinceLastSync <= CooldownMs

\* timeSinceLastSync < 60000
InCooldown(timeSinceLastSync) == timeSinceLastSync < CooldownMs

\* The loop left at the first saveLabel that does not succeed.
RECURSIVE SaveLabelsMutantAbort(_, _, _, _, _)
SaveLabelsMutantAbort(tbl, t, list, outs, at) ==
    IF list = <<>> \/ Head(outs) # "ok" THEN tbl
    ELSE SaveLabelsMutantAbort(saveLabel(tbl, t, Head(list), at),
                               t, Tail(list), Tail(outs), at)

\* The label pre-sync loop: saveLabel of each label; outs[i] is how the i-th
\* call ends ("false" and "throw" save nothing).
RECURSIVE SaveLabels(_, _, _, _, _)
SaveLabels(tbl, t, list, outs, at) ==
    IF list = <<>> THEN tbl
    ELSE SaveLabels(IF Head(outs) = "ok" THEN saveLabel(tbl, t, Head(list), at) ELSE tbl,
                    t, Tail(list), Tail(outs), at)

SyncError(failAt) ==
    IF failAt = "token" THEN "GitHub token not found"
    ELSE IF failAt = "save" THEN "Failed to save issues to database"
    ELSE "upstream error"

SyncRejected(error, wait) ==
    /\ last' = Last([op |-> "sync", raised |-> TRUE, error |-> error, wait |-> wait,
                     calledAt |-> now, tenant |-> IF configRef = <<>> THEN T1 ELSE configRef[1]])
    /\ UNCHANGED <<issues, labels, sync_history, nextId, cache, lastSyncTimeRef, state>>

MergeMutantBeforeSave(threw, emptyIncremental) == ~emptyIncremental

MergeMutantOnEmpty(threw, emptyIncremental) == ~threw

\* Whether the setState that merges and refreshes the cache is reached.
MergeReached(threw, emptyIncremental) == ~threw /\ ~emptyIncremental

CatchRecordMutantSkip(hist, id, t, message, at, lerr) == {hist}

\* The catch block's recordSync(owner, repo, 'failed', 0, message, 'full')
CatchRecord(hist, id, t, message, at, lerr) ==
    recordSync(hist, id, t, "failed", 0, message, "full", at, lerr)

\* syncIssues past the cooldown guard (from setState loading: true on).
\* failAt: the step that fails; labelsData, outs: the upstream labels and how
\* each saveLabel ends; data: the upstream issues; lerr: the store call of
\* recordSync that errs.
SyncAdmitted(config, failAt, labelsData, outs, data, lerr) ==
    LET labelsDone == failAt \notin {"token", "labels"}
        labs == IF labelsDone THEN SaveLabels(labels, config, labelsData, outs, now)
                ELSE labels
        lastSyncAt == checkSyncStatus(sync_history, config)
        isFullSync == IsFullSync(lastSyncAt)
        since == SinceParam(lastSyncAt)
        fetchOk == failAt \notin {"token", "labels", "issues"}
        list == IF fetchOk THEN ToIssues(data) ELSE <<>>
        emptyIncremental == fetchOk /\ ~isFullSync /\ list = <<>>
        threw == ~fetchOk \/ (failAt = "save" /\ ~emptyIncremental)
        merged == MergeIssues(state.issues, list, isFullSync)
        syncType == IF isFullSync THEN "full" ELSE "add"
    IN  /\ lastSyncTimeRef' = now
        /\ labels' = labs
        /\ issues' = IF fetchOk /\ ~emptyIncremental /\ failAt # "save"
                     THEN saveIssues(issues, config, list, now) ELSE issues
        /\ IF MergeReached(threw, emptyIncremental)
           THEN /\ state' = [issues |-> merged, loading |-> FALSE]
                /\ cache' = CacheSet(CacheRemove(cache, SyncCacheKeys(cache, config)),
                                     CACHE_KEYS_ISSUES(config, 1, <<>>),
                                     [issues |-> merged], ops + 1, config)
           ELSE /\ state' = [state EXCEPT !.loading = ~threw]
                /\ cache' = cache
        /\ nextId' = nextId + 1
        /\ \E h \in (IF threw
                     THEN CatchRecord(sync_history, nextId, config, SyncError(failAt),
                                      now, lerr)
                     ELSE recordSync(sync_history, nextId, config, "success",
                                     Len(list), NoText, syncType, now, lerr)) :
                sync_history' = h
        /\ last' = Last([op |-> "sync", tenant |-> config, raised |-> threw,
                         error |-> IF threw THEN SyncError(failAt) ELSE NoText,
                         passedGuard |-> TRUE, calledAt |-> now, admittedAt |-> now,
                         fetched |-> labelsDone, since |-> since,
                         isFullSync |-> isFullSync,
                         totalSynced |-> IF threw THEN 0 ELSE Len(list),
                         syncType |-> IF threw THEN NoText ELSE syncType,
                         failAt |-> IF threw THEN failAt ELSE "none",
                         record |-> IF threw THEN "failed" ELSE "success",
                         recordErr |-> lerr, wrote |-> ~threw /\ ~emptyIncremental])

\* syncIssues
SyncIssues(failAt, labelsData, outs, data, lerr) ==
    /\ ops' = ops + 1
    /\ UNCHANGED <<now, secret, configRef>>
    /\ IF configRef = <<>>
       THEN SyncRejected("GitHub configuration is missing", 0)
       ELSE IF InCooldown(now - lastSyncTimeRef)
       THEN SyncRejected("Please wait", WaitSeconds(now - lastSyncTimeRef))
       ELSE SyncAdmitted(configRef[1], failAt, labelsData, outs, data, lerr)

----------------------------------------------------------------------------
(* The query layer behind the cache, and the clock *)

\* The lists the query layer caches: tenant, page, label filter.
CacheQueries == {<<T1, 1, <<>>>>, <<T1, 2, <<>>>>, <<T1, 1, Bug>>, <<T2, 1, <<>>>>}

\* A read through the cache: on a miss the rows are read from the store and
\* cached under the key.
ReadThrough(t, page, filter) ==
    /\ ops < MaxOps
    /\ CACHE_KEYS_ISSUES(t, page, filter) \notin DOMAIN cache
    /\ ops' = ops + 1
    /\ cache' = CacheSet(cache, CACHE_KEYS_ISSUES(t, page, filter),
                         [issues |-> {r \in OfTenant(issues, t) :
                                        page = 1 /\ (filter = <<>> \/ filter \in Elems(r.labels))}],
                         ops + 1, t)
    /\ last' = Last([op |-> "read", tenant |-> t])
    /\ UNCHANGED <<now, secret, issues, labels, sync_history, nextId, configRef,
                   lastSyncTimeRef, state>>

Tick ==
    /\ now < Epoch + MaxTicks * TickMs
    /\ now' = now + TickMs
    /\ UNCHANGED <<secret, issues, labels, sync_history, nextId, cache, configRef,
                   lastSyncTimeRef, state, last, ops, flight, written>>

----------------------------------------------------------------------------
(* The specification *)

\* No write to the issue table yet.
NothingWritten == [at |-> 0, data |-> {}]

\* The deployments the model starts from: the secret, the provider's
\* configuration, the issues initializeData loaded.
Deployments ==
    {<<Key1, <<T1>>, <<>>>>,
     <<Key1, <<T1>>, <<ToIssue(IssueObj(1, TitleA, <<>>))>>>>,
     <<NoValue, <<>>, <<>>>>}

Init ==
    /\ now = Epoch
    /\ \E d \in Deployments :
        /\ secret = d[1]
        /\ configRef = d[2]
        /\ state = [issues |-> d[3], loading |-> FALSE]
        /\ cache = IF d[3] # <<>>
                   THEN CacheSet(<<>>, CACHE_KEYS_ISSUES(T1, 1, <<>>), [issues |-> d[3]], 0, T1)
                   ELSE <<>>
    /\ issues = {}
    /\ labels = {}
    /\ sync_history = {}
    /\ nextId = 1
    /\ lastSyncTimeRef = InitialLastSyncTime
    /\ last = LastDefault
    /\ ops = 0
    /\ flight = <<>>
    /\ written = NothingWritten

\* The store calls of the second handler that can err for a request, with
\* the issues the update loop touched before the update that erred.
PartInputs(req) ==
    IF req.event = "issues" /\ req.payload.issue # <<>>
    THEN {<<f, {}>> : f \in {"none", "select", "upsert"}}
    ELSE IF req.event = "label" /\ req.payload.label # <<>>
    THEN LET affected == {r.issue_number :
                            r \in ContainsLabel(issues, req.payload.repository,
                                                req.payload.label[1].name)}
         IN  {<<f, {}>> : f \in {"none", "select", "upsert", "fetch"}}
             \cup {<<"update", d>> : d \in (SUBSET affected) \ {affected}}
    ELSE {<<"none", {}>>}

\* The ledger errors of the specification whose ledger stays under
\* KeepRecords rows (a select or delete error changes nothing there).
InsertErrs == {"none", "insert"}

RouteForged ==
    /\ ops < MaxOps
    /\ \E req \in ForgedRequests : WebhookRoute(req, "none", "none")
    /\ UNCHANGED <<flight, written>>

RouteSigned ==
    /\ ops < MaxOps
    /\ \E req \in SignedRequests, lerr \in InsertErrs, fail \in RouteFails :
            WebhookRoute(req, fail, lerr)
    /\ UNCHANGED <<flight, written>>

PartForged ==
    /\ ops < MaxOps
    /\ \E req \in ForgedRequests : WebhookPart(req, "none", {}, "none")
    /\ UNCHANGED <<flight, written>>

PartSigned ==
    /\ ops < MaxOps
    /\ \E req \in SignedRequests, lerr \in InsertErrs :
            \E in \in PartInputs(req) : WebhookPart(req, in[1], in[2], lerr)
    /\ UNCHANGED <<flight, written>>

Sync ==
    \E lerr \in InsertErrs :
        /\ ops < MaxOps
        /\ UNCHANGED <<flight, written>>
        /\ \/ \E failAt \in {"token", "labels"} :
                    SyncIssues(failAt, <<>>, <<>>, <<>>, lerr)
           \/ \E failAt \in {"issues", "save", "none"}, labelsData \in UpstreamLabels,
                 data \in UpstreamLists :
                    \E outs \in [1..Len(labelsData) -> LabelOutcomes] :
                        SyncIssues(failAt, labelsData, outs, data, lerr)

\* A delivery for the provider's tenant, between syncs.
SyncDelivery ==
    /\ ops < MaxOps
    /\ UNCHANGED <<flight, written>>
    /\ \E handler \in {"route", "part"} :
        LET p == IssuesEvent(T1, IssueObj(1, TitleA, <<>>))
            req == Request(Sign(Key1, p), "issues", p)
        IN  IF handler = "route" THEN WebhookRoute(req, "none", "none")
            ELSE WebhookPart(req, "none", {}, "none")

Read ==
    /\ \E q \in CacheQueries : ReadThrough(q[1], q[2], q[3])
    /\ UNCHANGED <<flight, written>>

\* The webhook route with the query layer.
Next ==
    \/ Tick
    \/ RouteForged
    \/ RouteSigned
    \/ Read

\* The second webhook handler with the query layer.
NextPart ==
    \/ Tick
    \/ PartForged
    \/ PartSigned
    \/ Read

\* The provider with the query layer and deliveries for its tenant.
NextSync ==
    \/ Tick
    \/ Sync
    \/ SyncDelivery
    \/ Read

Spec == Init /\ [][Next]_vars

SpecPart == Init /\ [][NextPart]_vars

SpecSync == Init /\ [][NextSync]_vars

----------------------------------------------------------------------------
(* The ledger alone: recordSync called again and again *)

\* The ledger of a tenant that was reconciled KeepRecords - 1 times, once
\* with success and then with failures, a TickMs apart.
LedgerBefore ==
    {SyncRow(i, T1, IF i = 1 THEN "success" ELSE "failed", 0, NoText, NoText,
             Epoch - (KeepRecords - i) * TickMs) : i \in 1..(KeepRecords - 1)}

InitLedger ==
    /\ now = Epoch
    /\ secret = Key1
    /\ configRef = <<T1>>
    /\ state = [issues |-> <<>>, loading |-> FALSE]
    /\ cache = <<>>
    /\ issues = {}
    /\ labels = {}
    /\ sync_history = LedgerBefore
    /\ nextId = KeepRecords
    /\ lastSyncTimeRef = InitialLastSyncTime
    /\ last = LastDefault
    /\ ops = 0
    /\ flight = <<>>
    /\ written = NothingWritten

\* One call of the route's recordSync.
LedgerRecord(t, status, lerr) ==
    /\ ops < MaxLedgerOps
    /\ ops' = ops + 1
    /\ nextId' = nextId + 1
    /\ \E h \in recordSync(sync_history, nextId, t, status, 0, NoText, NoText, now, lerr) :
            sync_history' = h
    /\ last' = Last([op |-> "recordSync", tenant |-> t, record |-> status,
                     recordErr |-> lerr])
    /\ UNCHANGED <<now, secret, issues, labels, cache, configRef, lastSyncTimeRef, state,
                   flight, written>>

NextLedger ==
    \/ Tick
    \/ \E t \in Tenants, status \in {"success", "failed"}, lerr \in LedgerErrs :
            LedgerRecord(t, status, lerr)

SpecLedger == InitLedger /\ [][NextLedger]_vars

----------------------------------------------------------------------------
(* The cooldown alone: syncIssues called again and again, on a finer clock *)

CooldownTick ==
    /\ now < Epoch + MaxCooldownTicks * CooldownTickMs
    /\ now' = now + CooldownTickMs
    /\ UNCHANGED <<secret, issues, labels, sync_history, nextId, cache, configRef,
                   lastSyncTimeRef, state, last, ops, flight, written>>

CooldownSync ==
    /\ ops < MaxSyncCalls
    /\ UNCHANGED <<flight, written>>
    /\ \E failAt \in {"none", "token", "save"}, data \in UpstreamLists :
            SyncIssues(failAt, <<>>, <<>>, data, "none")

NextCooldown ==
    \/ CooldownTick
    \/ CooldownSync

SpecCooldown == Init /\ [][NextCooldown]_vars

----------------------------------------------------------------------------
(* Both webhook handlers where no signing secret is configured *)

InitNoSecret ==
    /\ now = Epoch
    /\ secret = NoValue
    /\ \E d \in Deployments :
        /\ configRef = d[2]
        /\ state = [issues |-> d[3], loading |-> FALSE]
        /\ cache = IF d[3] # <<>>
                   THEN CacheSet(<<>>, CACHE_KEYS_ISSUES(T1, 1, <<>>), [issues |-> d[3]], 0, T1)
                   ELSE <<>>
    /\ issues = {}
    /\ labels = {}
    /\ sync_history = {}
    /\ nextId = 1
    /\ lastSyncTimeRef = InitialLastSyncTime
    /\ last = LastDefault
    /\ ops = 0
    /\ flight = <<>>
    /\ written = NothingWritten

NextNoSecret ==
    \/ Tick
    \/ RouteForged
    \/ RouteSigned
    \/ PartForged
    \/ PartSigned
    \/ Read

SpecNoSecret == InitNoSecret /\ [][NextNoSecret]_vars

----------------------------------------------------------------------------
(* syncIssues step by step, with deliveries to the route between its awaits *)

\* The columns of an issue row that both write paths provide.
WrittenFields(rec) ==
    [owner |-> rec.owner, repo |-> rec.repo, issue_number |-> rec.issue_number,
     title |-> rec.title, body |-> rec.body, state |-> rec.state,
     labels |-> rec.labels]

\* written after the upsert of recs by operation stamp.
RecordWrite(w, recs, stamp) ==
    [at |-> stamp,
     data |-> {d \in w.data : \A r \in recs : ~Matches(d, r, IssueKeyCols)}
              \cup {WrittenFields(r) : r \in recs}]

\* Deliveries for the provider's repository that pass the route's validation.
RacePayloads ==
    {p \in IssuePayloads : p.repository = T1 /\ ~Falsy(p.issue[1].title)}

\* syncIssues from its start to the answer of listForRepo (the label
\* pre-sync finds no label upstream).
RaceBegin ==
    /\ ops < MaxRaceOps
    /\ flight = <<>>
    /\ configRef # <<>>
    /\ ~InCooldown(now - lastSyncTimeRef)
    /\ \E data \in UpstreamLists :
        LET config == configRef[1]
            lastSyncAt == checkSyncStatus(sync_history, config)
            isFullSync == IsFullSync(lastSyncAt)
            list == ToIssues(data)
        IN  IF ~isFullSync /\ list = <<>>
            THEN /\ flight' = <<>>
                 /\ nextId' = nextId + 1
                 /\ \E h \in recordSync(sync_history, nextId, config, "success", 0,
                                        NoText, "add", now, "none") :
                        sync_history' = h
                 /\ last' = Last([op |-> "sync", tenant |-> config, passedGuard |-> TRUE,
                                  calledAt |-> now, admittedAt |-> now, fetched |-> TRUE,
                                  since |-> SinceParam(lastSyncAt), syncType |-> "add",
                                  record |-> "success"])
            ELSE /\ flight' = <<[pc |-> "fetched", config |-> config, list |-> list,
                                 isFullSync |-> isFullSync, stamp |-> 0]>>
                 /\ last' = Last([op |-> "fetch", tenant |-> config, passedGuard |-> TRUE,
                                  calledAt |-> now, admittedAt |-> now, fetched |-> TRUE,
                                  since |-> SinceParam(lastSyncAt),
                                  isFullSync |-> isFullSync])
                 /\ UNCHANGED <<sync_history, nextId>>
    /\ ops' = ops + 1
    /\ lastSyncTimeRef' = now
    /\ state' = [state EXCEPT !.loading = TRUE]
    /\ UNCHANGED <<now, secret, issues, labels, cache, configRef, written>>

\* await saveIssues(config.owner, config.repo, issues)
RaceSave ==
    /\ ops < MaxRaceOps
    /\ flight # <<>>
    /\ flight[1].pc = "fetched"
    /\ LET f == flight[1]
       IN  /\ issues' = saveIssues(issues, f.config, f.list, now)
           /\ written' = RecordWrite(written,
                                     {SaveIssueData(f.config, f.list[i], now) :
                                        i \in 1..Len(f.list)},
                                     ops + 1)
           /\ flight' = <<[f EXCEPT !.pc = "saved", !.stamp = ops + 1]>>
           /\ last' = Last([op |-> "save", tenant |-> f.config, wrote |-> TRUE])
    /\ ops' = ops + 1
    /\ UNCHANGED <<now, secret, labels, sync_history, nextId, cache, configRef,
                   lastSyncTimeRef, state>>

\* setState(prev => ...): the merge, the cache clearing and the new cache
\* entry (stamped with the operation that saved its data), then recordSync.
RaceMerge ==
    /\ ops < MaxRaceOps
    /\ flight # <<>>
    /\ flight[1].pc = "saved"
    /\ LET f == flight[1]
           merged == MergeIssues(state.issues, f.list, f.isFullSync)
           syncType == IF f.isFullSync THEN "full" ELSE "add"
       IN  /\ state' = [issues |-> merged, loading |-> FALSE]
           /\ cache' = CacheSet(CacheRemove(cache, SyncCacheKeys(cache, f.config)),
                                CACHE_KEYS_ISSUES(f.config, 1, <<>>),
                                [issues |-> merged], f.stamp, f.config)
           /\ nextId' = nextId + 1
           /\ \E h \in recordSync(sync_history, nextId, f.config, "success",
                                  Len(f.list), NoText, syncType, now, "none") :
                    sync_history' = h
           /\ last' = Last([op |-> "sync", tenant |-> f.config, passedGuard |-> TRUE,
                            isFullSync |-> f.isFullSync, totalSynced |-> Len(f.list),
                            syncType |-> syncType, record |-> "success", wrote |-> TRUE])
    /\ flight' = <<>>
    /\ ops' = ops + 1
    /\ UNCHANGED <<now, secret, issues, labels, configRef, lastSyncTimeRef, written>>

\* A delivery to the route while the sync is at an await, or between syncs.
RaceDelivery ==
    /\ ops < MaxRaceOps
    /\ \E p \in RacePayloads :
        /\ WebhookRoute(Request(Sign(Key1, p), "issues", p), "none", "none")
        /\ written' = IF last'.wrote
                      THEN RecordWrite(written, {RouteIssueData(T1, p.issue[1], now)},
                                       ops + 1)
                      ELSE written
    /\ UNCHANGED flight

NextRace ==
    \/ Tick
    \/ RaceBegin
    \/ RaceSave
    \/ RaceMerge
    \/ RaceDelivery

SpecRace == Init /\ [][NextRace]_vars

----------------------------------------------------------------------------
(* The merge alone: the setState of a sync over lists of every shape *)

\* Issues as the provider holds them: numbers 1..MaxMergeLen + 1, two titles.
MergeIssueSet ==
    {ToIssue(IssueObj(n, title, <<>>)) : n \in 1..(MaxMergeLen + 1),
                                         title \in {TitleA, TitleB}}

\* Lists of up to MaxMergeLen issues; an issue number occurs once in a list.
MergeLists ==
    {l \in UNION {[1..k -> MergeIssueSet] : k \in 0..MaxMergeLen} :
        \A i \in DOMAIN l, j \in DOMAIN l : i # j => l[i].number # l[j].number}

\* A sync of the provider's repository that has saved the list it fetched and
\* is about to merge it into the list in memory.
InitMerge ==
    /\ now = Epoch
    /\ secret = Key1
    /\ configRef = <<T1>>
    /\ \E prev \in MergeLists, list \in MergeLists, isFullSync \in BOOLEAN :
        /\ state = [issues |-> prev, loading |-> TRUE]
        /\ flight = <<[pc |-> "saved", config |-> T1, list |-> list,
                       isFullSync |-> isFullSync, stamp |-> 0]>>
        /\ issues = saveIssues({}, T1, list, Epoch)
        /\ sync_history = IF isFullSync THEN {}
                          ELSE {SyncRow(1, T1, "success", 0, NoText, "full",
                                        Epoch - CooldownMs)}
    /\ cache = <<>>
    /\ labels = {}
    /\ nextId = 2
    /\ lastSyncTimeRef = Epoch
    /\ last = LastDefault
    /\ ops = 0
    /\ written = NothingWritten

NextMerge == RaceMerge

SpecMerge == InitMerge /\ [][NextMerge]_vars

----------------------------------------------------------------------------
(* The label pre-sync: syncs whose saveLabel calls end in every way *)

\* A sync whose token and label list are obtained; flight keeps what the call
\* was given (the upstream labels, how each saveLabel ended, the step that
\* failed) once it passed the guard.
LabelSync ==
    /\ ops < MaxOps
    /\ \E failAt \in {"issues", "save", "none"}, labelsData \in UpstreamLabels,
          data \in UpstreamLists, lerr \in InsertErrs :
            \E outs \in [1..Len(labelsData) -> LabelOutcomes] :
                /\ SyncIssues(failAt, labelsData, outs, data, lerr)
                /\ flight' = IF configRef # <<>> /\ ~InCooldown(now - lastSyncTimeRef)
                             THEN <<[pc |-> "done", config |-> configRef[1],
                                     list |-> labelsData, outs |-> outs,
                                     failAt |-> failAt, data |-> data, at |-> now]>>
                             ELSE flight
    /\ UNCHANGED written

NextLabels == Tick \/ LabelSync

SpecLabels == Init /\ [][NextLabels]_vars

----------------------------------------------------------------------------
(* The ledger step by step: two recordSync calls of the route at their
   awaits, and a sync reading its cursor *)

\* LedgerBefore, the first two records written in the same millisecond.
LedgerTied ==
    {IF r.id = 2 THEN [r EXCEPT !.last_sync_at = Epoch - (KeepRecords - 1) * TickMs]
     ELSE r : r \in LedgerBefore}

\* A recordSync call that is not running.
Idle == [pc |-> "idle", ids |-> {}]

InitPrune ==
    /\ now = Epoch
    /\ secret = Key1
    /\ configRef = <<T1>>
    /\ state = [issues |-> <<>>, loading |-> FALSE]
    /\ cache = <<>>
    /\ issues = {}
    /\ labels = {}
    /\ sync_history \in {LedgerBefore, LedgerTied}
    /\ nextId = KeepRecords
    /\ lastSyncTimeRef = InitialLastSyncTime
    /\ last = LastDefault
    /\ ops = 0
    /\ flight = <<Idle, Idle>>
    /\ written = NothingWritten

\* The rows checkSyncStatus reads lastSyncAt from.
CursorRecords(hist, t) ==
    {r \in OfTenant(hist, t) :
        r.status = "success" /\ r.last_sync_at = checkSyncStatus(hist, t)}

\* .insert({...}) of call i; an insert error ends the call.
PruneInsert(i) ==
    /\ ops < MaxPruneInserts
    /\ flight[i].pc = "idle"
    /\ ops' = ops + 1
    /\ nextId' = nextId + 1
    /\ \E status \in {"success", "failed"}, err \in InsertErrs :
        IF err = "insert"
        THEN UNCHANGED <<sync_history, flight>>
        ELSE /\ sync_history' = sync_history \cup
                    {SyncRow(nextId, T1, status, 0, NoText, NoText, now)}
             /\ flight' = [flight EXCEPT ![i] = [pc |-> "select", ids |-> {}]]
    /\ UNCHANGED <<now, secret, issues, labels, cache, configRef, lastSyncTimeRef,
                   state, last, written>>

\* .select('id, last_sync_at')...order(...) of call i, and slice(20): the
\* ids to delete; with 20 records or fewer the call ends.
PruneSelect(i) ==
    /\ flight[i].pc = "select"
    /\ LET allRecords == OfTenant(sync_history, T1)
       IN  IF Cardinality(allRecords) > KeepRecords
           THEN \E D \in SliceAfter(allRecords, KeepRecords) :
                    flight' = [flight EXCEPT
                                ![i] = [pc |-> "delete", ids |-> {r.id : r \in D}]]
           ELSE flight' = [flight EXCEPT ![i] = Idle]
    /\ UNCHANGED <<now, secret, issues, labels, sync_history, nextId, cache, configRef,
                   lastSyncTimeRef, state, last, ops, written>>

\* .delete().in('id', idsToDelete) of call i
PruneDelete(i) ==
    /\ flight[i].pc = "delete"
    /\ sync_history' = {r \in sync_history : r.id \notin flight[i].ids}
    /\ flight' = [flight EXCEPT ![i] = Idle]
    /\ UNCHANGED <<now, secret, issues, labels, nextId, cache, configRef,
                   lastSyncTimeRef, state, last, ops, written>>

\* checkSyncStatus of a sync: written holds the record its cursor is read from.
CursorRead ==
    /\ written = NothingWritten
    /\ CursorRecords(sync_history, T1) # {}
    /\ written' = [at |-> now, data |-> {r.id : r \in CursorRecords(sync_history, T1)}]
    /\ UNCHANGED <<now, secret, issues, labels, sync_history, nextId, cache, configRef,
                   lastSyncTimeRef, state, last, ops, flight>>

\* The sync has issued its fetch with the cursor as `since`.
CursorUsed ==
    /\ written.data # {}
    /\ written' = [written EXCEPT !.data = {}]
    /\ UNCHANGED <<now, secret, issues, labels, sync_history, nextId, cache, configRef,
                   lastSyncTimeRef, state, last, ops, flight>>

NextPrune ==
    \/ \E i \in DOMAIN flight : PruneInsert(i)
    \/ \E i \in DOMAIN flight : PruneSelect(i)
    \/ \E i \in DOMAIN flight : PruneDelete(i)
    \/ CursorRead
    \/ CursorUsed

SpecPrune == InitPrune /\ [][NextPrune]_vars

----------------------------------------------------------------------------
(* Every writer of the store: syncs and deliveries to both handlers, on a
   ledger one record short of its cap *)

\* The deliveries of SpecStore: an issue, and a label created and deleted.
StorePayloads ==
    {IssuesEvent(T1, IssueObj(1, TitleA, <<LabelObj(Bug, "red")>>)),
     LabelEvent(T1, "created", LabelObj(Bug, "red")),
     LabelEvent(T1, "deleted", LabelObj(Bug, "red"))}

StoreDelivery ==
    /\ ops < MaxStoreOps
    /\ \E p \in StorePayloads, handler \in {"route", "part"} :
        LET req == Request(Sign(Key1, p), EventOf(p), p)
        IN  IF handler = "route" THEN WebhookRoute(req, "none", "none")
            ELSE WebhookPart(req, "none", {}, "none")
    /\ UNCHANGED <<flight, written>>

StoreSync ==
    /\ ops < MaxStoreOps
    /\ \E failAt \in {"save", "none"}, labelsData \in UpstreamLabels,
          data \in UpstreamLists :
            SyncIssues(failAt, labelsData, [i \in 1..Len(labelsData) |-> "ok"],
                       data, "none")
    /\ UNCHANGED <<flight, written>>

NextStore == Tick \/ StoreDelivery \/ StoreSync

SpecStore == InitLedger /\ [][NextStore]_vars

----------------------------------------------------------------------------
(* The second handler step by step: issues deliveries at their awaits *)

TwinPayloads ==
    {IssuesEvent(T1, IssueObj(n, title, <<>>)) : n \in {1, 2}, title \in {TitleA, TitleB}}

\* A delivery arrives: the signature is checked and `now` is taken; flight
\* holds the deliveries that passed, each at its next store call.
TwinBegin ==
    /\ ops < MaxTwinDeliveries
    /\ \E p \in TwinPayloads :
        LET req == Request(Sign(Key1, p), "issues", p)
        IN  IF verifyGitHubWebhook(req.payload, req.signature) = "true"
            THEN /\ flight' = Append(flight, [pc |-> "select", at |-> now,
                                              issue |-> p.issue[1], existing |-> <<>>])
                 /\ ops' = ops + 1
                 /\ UNCHANGED <<now, secret, issues, labels, sync_history, nextId, cache,
                                configRef, lastSyncTimeRef, state, last>>
            ELSE /\ WebhookPart(req, "none", {}, "none")
                 /\ UNCHANGED flight
    /\ UNCHANGED written

\* .select('id, created_at')...single() of delivery i
TwinSelect(i) ==
    /\ flight[i].pc = "select"
    /\ flight' = [flight EXCEPT
                    ![i].pc = "upsert",
                    ![i].existing = SelectSingle(issues,
                                        [owner |-> T1.owner, repo |-> T1.repo,
                                         issue_number |-> flight[i].issue.number])]
    /\ UNCHANGED <<now, secret, issues, labels, sync_history, nextId, cache, configRef,
                   lastSyncTimeRef, state, last, ops, written>>

\* .upsert({...}) of delivery i, then recordSync and the response; written
\* keeps, per issue number, the created_at of the first upsert.
TwinUpsert(i) ==
    /\ flight[i].pc = "upsert"
    /\ LET f == flight[i]
           row == PartIssueData(T1, f.issue, f.existing, f.at)
       IN  /\ issues' = Upsert(issues, row, IssueKeyCols, IssueDefaults(f.at))
           /\ written' = IF \E w \in written.data : w.issue_number = row.issue_number
                         THEN written
                         ELSE [at |-> now,
                               data |-> written.data \cup
                                    {[issue_number |-> row.issue_number,
                                      created_at |-> row.created_at]}]
           /\ \E h \in recordSync(sync_history, nextId, T1, "success", 1, NoText,
                                  "webhook", now, "none") :
                    sync_history' = h
           /\ last' = Last([op |-> "webhook", handler |-> "part", tenant |-> T1,
                            event |-> "issues", number |-> row.issue_number,
                            status |-> 200, parsed |-> TRUE, wrote |-> TRUE,
                            signed |-> TRUE, authentic |-> TRUE, record |-> "success"])
    /\ nextId' = nextId + 1
    /\ flight' = [flight EXCEPT ![i].pc = "done"]
    /\ UNCHANGED <<now, secret, labels, cache, configRef, lastSyncTimeRef, state, ops>>

NextTwin ==
    \/ Tick
    \/ TwinBegin
    \/ \E i \in DOMAIN flight : TwinSelect(i)
    \/ \E i \in DOMAIN flight : TwinUpsert(i)

SpecTwin == Init /\ [][NextTwin]_vars

----------------------------------------------------------------------------
(* Properties *)

\* C1: each tenant and issue number has one row in the issue table and,
\* whatever is delivered afterwards, the row keeps the created_at its first
\* delivery wrote (specification Spec: the webhook route).
C1_CreatedAtFromFirstDelivery ==
    [][/\ \A r \in issues', x \in issues' : Matches(r, x, IssueKeyCols) => r = x
       /\ \A r \in issues, x \in issues' :
            Matches(x, r, IssueKeyCols) => x.created_at = r.created_at]_vars

\* C2 as stated: with a configured provider, a syncIssues call that starts
\* less than CooldownMs after the start of the previous syncIssues call is
\* rejected with the rate-limit error and changes nothing (SpecCooldown).
C2_RejectedAfterPreviousCall ==
    [][(/\ ops' = ops + 1 /\ last'.op = "sync" /\ last.op = "sync"
        /\ configRef # <<>>
        /\ last'.calledAt - last.calledAt < CooldownMs)
       => /\ last'.raised /\ last'.error = "Please wait"
          /\ UNCHANGED <<issues, labels, sync_history, cache, state>>]_vars

\* C2 amended: with a configured provider, a syncIssues call that starts less
\* than CooldownMs after the start of the last call that passed the cooldown
\* guard is rejected with the rate-limit error and the seconds left to wait,
\* and it writes no SyncRecord, fetches nothing, and leaves the store, the
\* cache, the in-memory state and the cooldown's origin as they were.
C2_RejectedAfterAdmittedCall ==
    [][(/\ ops' = ops + 1 /\ last'.op = "sync"
        /\ configRef # <<>>
        /\ last.admittedAt # 0
        /\ now - last.admittedAt < CooldownMs)
       => /\ last'.raised /\ last'.error = "Please wait"
          /\ last'.wait = Ceil(CooldownMs - (now - last.admittedAt), 1000)
          /\ ~last'.passedGuard /\ ~last'.fetched
          /\ UNCHANGED <<issues, labels, sync_history, nextId, cache, state,
                         lastSyncTimeRef>>]_vars

\* A call rejected 40 seconds into the cooldown of an admitted call, which was
\* not the call before it.
C2_Witness ==
    /\ last.op = "sync" /\ last.error = "Please wait" /\ last.wait = 20
    /\ last.admittedAt # 0 /\ last.calledAt > last.admittedAt
    /\ ops = 3

\* C3: after a reconciliation that succeeded for a tenant (a sync, an issues
\* webhook, a label webhook), no cache entry the tenant had before it is left
\* (specification Spec: the webhook route).
C3_TenantCacheCleared ==
    [][(/\ ops' = ops + 1 /\ last'.op \in {"webhook", "sync"}
        /\ last'.wrote /\ ~last'.raised /\ last'.status \in {0, 200})
       => \A k \in DOMAIN cache :
            cache[k].tenant = last'.tenant
                => (k \notin DOMAIN cache' \/ cache'[k].setBy = ops')]_vars

\* C4: when the ledger holds no successful SyncRecord of the tenant, a sync
\* that passes the cooldown guard and reaches the upstream issue listing is a
\* full sync: it lists without a since parameter (SpecSync).
C4_FullSyncWithoutSuccess ==
    [][(/\ ops' = ops + 1 /\ last'.op = "sync" /\ last'.passedGuard /\ last'.fetched
        /\ \A r \in OfTenant(sync_history, last'.tenant) : r.status # "success")
       => last'.isFullSync /\ last'.since = 0]_vars

\* A full sync of a tenant whose ledger held records, none of them successful.
C4_Witness ==
    /\ last.op = "sync" /\ last.passedGuard /\ last.fetched /\ ~last.raised
    /\ last.isFullSync /\ last.since = 0
    /\ \E r \in OfTenant(sync_history, last.tenant) : r.status = "failed"
    /\ \A r \in OfTenant(sync_history, last.tenant) :
            r.status = "success" => r.last_sync_at = last.calledAt

\* C5: when the tenant's most recent successful SyncRecord has last_sync_at T,
\* a sync that passes the cooldown guard and reaches the upstream issue
\* listing is incremental and lists with since = T (SpecSync).
C5_IncrementalSinceLastSuccess ==
    [][(/\ ops' = ops + 1 /\ last'.op = "sync" /\ last'.passedGuard /\ last'.fetched
        /\ \E r \in OfTenant(sync_history, last'.tenant) : r.status = "success")
       => \E r \in OfTenant(sync_history, last'.tenant) :
            /\ r.status = "success"
            /\ \A x \in OfTenant(sync_history, last'.tenant) :
                    x.status = "success" => x.last_sync_at <= r.last_sync_at
            /\ ~last'.isFullSync
            /\ last'.since = r.last_sync_at]_vars

\* An incremental sync whose cursor is the time of an earlier success.
C5_Witness ==
    /\ last.op = "sync" /\ last.passedGuard /\ last.fetched /\ ~last.isFullSync
    /\ last.since = Epoch /\ last.calledAt > Epoch
    /\ \E r \in OfTenant(sync_history, last.tenant) :
            r.status = "success" /\ r.last_sync_at = Epoch

C7_ForgedIsUnauthorized ==
    (last.op = "webhook" /\ ~Falsy(secret) /\ ~last.authentic)
        => last.status = 401 /\ ~last.parsed

\* C8: a label webhook with action deleted removes the label row of that
\* tenant and name and no other, and the label lists of the issue rows stay as
\* they were (specification SpecPart: the second handler).
C8_DeletedRemovesLabelRow ==
    [][(/\ ops' = ops + 1 /\ last'.op = "webhook" /\ last'.event = "label"
        /\ last'.action = "deleted" /\ last'.status = 200)
       => /\ labels' = {l \in labels : ~(/\ l.owner = last'.tenant.owner
                                         /\ l.repo = last'.tenant.repo
                                         /\ l.name = last'.name)}
          /\ \A r \in issues : \E x \in issues' :
                Matches(x, r, IssueKeyCols) /\ x.labels = r.labels]_vars

C13_LabelEditTouchesIssues ==
    [][(/\ ops' = ops + 1 /\ last'.op = "webhook" /\ last'.event = "label"
        /\ last'.action \in {"created", "edited"} /\ last'.status = 200)
       => \A r \in issues :
            IF /\ r.owner = last'.tenant.owner /\ r.repo = last'.tenant.repo
               /\ last'.name \in Elems(r.labels)
            THEN \E x \in issues' :
                    /\ Matches(x, r, IssueKeyCols)
                    /\ x.updated_at = now /\ x.labels = r.labels
            ELSE r \in issues']_vars

\* C14: every authenticated webhook request that reaches event handling, the
\* ledger answering without error, adds exactly one SyncRecord, of sync type
\* webhook: success when handling succeeds, failed when it fails, and then
\* the response is the server error (specification Spec: the webhook route).
C14_WebhookWritesOneWebhookRecord ==
    [][(/\ ops' = ops + 1 /\ last'.op = "webhook" /\ last'.authentic /\ last'.parsed
        /\ last'.recordErr = "none")
       => /\ last'.status \in {200, 500}
          /\ \E r \in sync_history' \ sync_history :
                /\ sync_history' = sync_history \cup {r}
                /\ r.sync_type = "webhook"
                /\ r.status = IF last'.status = 200 THEN "success" ELSE "failed"]_vars

\* C15: a correctly signed webhook whose event type is neither issues nor
\* label is rejected as an unsupported event type and changes no issue row,
\* label row, SyncRecord or cache entry (specification Spec: the webhook route).
C15_UnsupportedEventRejected ==
    [][(/\ ops' = ops + 1 /\ last'.op = "webhook" /\ last'.authentic
        /\ last'.event \notin {"issues", "label"})
       => /\ last'.status # 200
          /\ last'.error = "Unsupported event type"
          /\ UNCHANGED <<issues, labels, sync_history, cache>>]_vars

\* C16: a webhook request rejected for its signature writes no issue row, no
\* label row and no SyncRecord, and no SyncRecord is ever written for the
\* validation error of an issues event that lacks its number, title or state
\* (specification Spec: the webhook route).
C16_RejectedNeverReachesLedger ==
    [][/\ (ops' = ops + 1 /\ last'.op = "webhook" /\ ~last'.authentic)
            => UNCHANGED <<issues, labels, sync_history>>
       /\ \A r \in sync_history' \ sync_history :
            r.error_message # "Missing required issue fields"]_vars

\* C17: where no signing secret is configured, every webhook request, whatever
\* its payload and signature header, is rejected before its payload is parsed
\* (unauthorized; the second handler answers a missing header as a bad request)
\* and changes no issue row, label row, SyncRecord or cache entry (SpecNoSecret).
C17_NoSecretFailsClosed ==
    [][(ops' = ops + 1 /\ last'.op = "webhook" /\ Falsy(secret))
       => /\ last'.status \in {400, 401}
          /\ last'.status = 400 => (last'.handler = "part" /\ ~last'.signed)
          /\ ~last'.parsed /\ ~last'.wrote
          /\ UNCHANGED <<issues, labels, sync_history, nextId, cache>>]_vars

\* A delivery with a signature header, answered as unauthorized by the second
\* handler, after one answered by the route.
C17_Witness ==
    /\ Falsy(secret) /\ last.op = "webhook" /\ last.handler = "part"
    /\ last.signed /\ last.status = 401 /\ ops = 2
    /\ issues = {} /\ sync_history = {}

\* C18: under every interleaving of a sync and a webhook for the provider's
\* repository, once both have completed, no cache entry of the repository
\* holds data from before the last successful write to its issue rows
\* (SpecRace: entries are stamped with the write their data comes from).
C18_CacheNotOlderThanStore ==
    flight = <<>>
        => \A k \in DOMAIN cache :
                cache[k].tenant = T1 => cache[k].setBy >= written.at

\* C19: under every interleaving of a sync and deliveries that write the same
\* issue key, the issue table never has two rows for one (owner, repo,
\* issue_number), and after every step, so once both have completed, the
\* row's title, body, state and labels are those of the upsert that was
\* executed last for the key (SpecRace).
C19_OneRowLastWriteWins ==
    /\ \A r \in issues, x \in issues : Matches(r, x, IssueKeyCols) => r = x
    /\ \A d \in written.data :
            \E r \in issues : WrittenFields(r) = d

\* A sync and a delivery wrote issue 1, the delivery between the sync's save
\* and its merge, and the row is the delivery's.
C19_Witness ==
    /\ flight = <<>> /\ last.op = "sync" /\ written.at = 3 /\ ops = 4
    /\ \E r \in issues : r.issue_number = 1 /\ r.title = TitleA
    /\ \E i \in 1..Len(state.issues) :
            state.issues[i].number = 1 /\ state.issues[i].title # TitleA

\* C20: the cooldown runs from the start of the last syncIssues call that
\* passed the guard, whatever its outcome: with a configured provider, a call
\* is rejected with the rate-limit error when it starts less than CooldownMs
\* after that start and passes the guard, becoming the new origin, when it
\* starts CooldownMs or more after it (SpecCooldown).
C20_CooldownFromLastAdmitted ==
    [][(/\ ops' = ops + 1 /\ last'.op = "sync"
        /\ configRef # <<>>
        /\ last.admittedAt # 0)
       => /\ last'.passedGuard <=> now - last.admittedAt >= CooldownMs
          /\ ~last'.passedGuard
                => /\ last'.raised /\ last'.error = "Please wait"
                   /\ last'.admittedAt = last.admittedAt
          /\ last'.passedGuard => last'.admittedAt = now /\ lastSyncTimeRef' = now]_vars

\* A call admitted exactly CooldownMs after the start of a sync that failed,
\* with a rejected call in between.
C20_Witness ==
    /\ last.op = "sync" /\ last.passedGuard /\ ops = 3
    /\ \E r \in sync_history :
            /\ r.status = "failed"
            /\ r.last_sync_at = last.calledAt - CooldownMs
    /\ \A r \in sync_history :
            r.last_sync_at = last.calledAt - CooldownMs \/ r.last_sync_at = last.calledAt

\* C21: the merge of an incremental sync keeps every issue of the previous
\* list at its position, replaced by the fetched issue of the same number when
\* there is one, appends the fetched issues whose number was not in the list
\* after all of them, and has one entry per issue number (SpecMerge).
C21_MergeKeepsPlacesAndAppends ==
    [][(/\ flight # <<>> /\ flight' = <<>>
        /\ flight[1].pc = "saved" /\ ~flight[1].isFullSync)
       => LET prev == state.issues
              fetched == flight[1].list
              merged == state'.issues
              Fresh(n) == \E j \in DOMAIN fetched : fetched[j].number = n
          IN  /\ Len(merged) >= Len(prev)
              /\ \A i \in DOMAIN prev :
                    /\ merged[i].number = prev[i].number
                    /\ IF Fresh(prev[i].number)
                       THEN \E j \in DOMAIN fetched : merged[i] = fetched[j]
                       ELSE merged[i] = prev[i]
              /\ \A j \in DOMAIN fetched : \E i \in DOMAIN merged : merged[i] = fetched[j]
              /\ \A i \in DOMAIN merged :
                    i > Len(prev)
                        => /\ \E j \in DOMAIN fetched : merged[i] = fetched[j]
                           /\ \A k \in DOMAIN prev : prev[k].number # merged[i].number
              /\ \A i \in DOMAIN merged, k \in DOMAIN merged :
                    i # k => merged[i].number # merged[k].number]_vars

\* A merge that replaced the first of two issues in place and appended a new
\* one after the second.
C21_Witness ==
    /\ flight = <<>> /\ last.op = "sync" /\ ~last.isFullSync /\ last.totalSynced = 2
    /\ Len(state.issues) = 3
    /\ state.issues[1].number = 1 /\ state.issues[1].title = TitleB
    /\ state.issues[2].number = 3 /\ state.issues[3].number = 2

\* C22: a delivery the handler answers with an error status leaves every
\* Issue row and every Label row as it was before the delivery (SpecPart).
C22_ErrorResponseLeavesStore ==
    [][(/\ ops' = ops + 1
        /\ last'.op = "webhook" /\ last'.handler = "part"
        /\ last'.status >= 400)
       => (issues' = issues /\ labels' = labels)]_vars

\* C23: a saveLabel that returns false or throws does not abort the sync:
\* every label whose saveLabel succeeded is reconciled, also after a failed
\* one, the upstream issues are fetched and saved, and the sync ends with a
\* success record unless a later step fails (SpecLabels).
C23_LabelFailureDoesNotAbort ==
    (flight # <<>> /\ last.op = "sync" /\ last.passedGuard)
        => LET f == flight[1]
           IN  /\ \A i \in DOMAIN f.list :
                    f.outs[i] = "ok"
                        => \E r \in OfTenant(labels, f.config) :
                                /\ r.name = f.list[i].name
                                /\ r.color = f.list[i].color
                                /\ r.updated_at = f.at
               /\ last.fetched
               /\ f.failAt = "none"
                    => /\ ~last.raised /\ last.record = "success"
                       /\ last.totalSynced = Len(f.data)
                       /\ (last.isFullSync \/ f.data # <<>>)
                            => \A j \in DOMAIN f.data :
                                \E r \in OfTenant(issues, f.config) :
                                    r.issue_number = f.data[j].number
                       /\ last.recordErr = "none"
                            => \E h \in OfTenant(sync_history, f.config) :
                                    /\ h.id = nextId - 1 /\ h.status = "success"

\* A sync whose first saveLabel failed and whose second one saved its label,
\* and which went on to save two issues and write a success record.
C23_Witness ==
    /\ flight # <<>> /\ last.op = "sync" /\ last.passedGuard
    /\ Len(flight[1].list) = 2
    /\ flight[1].outs[1] \in {"false", "throw"} /\ flight[1].outs[2] = "ok"
    /\ \E r \in labels : r.name = Ui
    /\ ~ \E r \in labels : r.name = Bug
    /\ last.record = "success" /\ last.totalSynced = 2
    /\ \E h \in sync_history : h.status = "success"

\* C24: under every interleaving of recordSync calls and a cursor read, a
\* record that pruning deletes has at least 20 other records of its tenant
\* that are not older at the moment of the deletion, and is not the record a
\* sync in progress has read its cursor from (SpecPrune).
C24_PruningSparesNewestAndCursor ==
    [][\A r \in sync_history \ sync_history' :
        /\ Cardinality({q \in OfTenant(sync_history, T1) \ {r} :
                            q.last_sync_at >= r.last_sync_at}) >= KeepRecords
        /\ r.id \notin written.data]_vars

\* C25: no sync and no delivery removes an Issue row: the keys of the issue
\* table only grow. A Label row disappears only in a delivery of a label
\* deleted event naming it, and a SyncRecord only in a call that wrote a
\* record and left 20 records of the tenant that are not older (SpecStore).
C25_OnlyLabelEventsAndPruningRemove ==
    [][/\ \A r \in issues : \E q \in issues' : Matches(q, r, IssueKeyCols)
       /\ \A r \in labels :
            (~ \E q \in labels' : Matches(q, r, LabelKeyCols))
                => /\ last'.op = "webhook" /\ last'.event = "label"
                   /\ last'.action = "deleted" /\ last'.name = r.name
                   /\ last'.tenant.owner = r.owner /\ last'.tenant.repo = r.repo
       /\ \A r \in sync_history \ sync_history' :
            /\ nextId' = nextId + 1
            /\ Cardinality({q \in sync_history' :
                                /\ q.owner = r.owner /\ q.repo = r.repo
                                /\ q.last_sync_at >= r.last_sync_at}) >= KeepRecords]_vars

\* After a sync saved two labels and two issues, the route handled the
\* deleted event of one label: its row is gone, the other label and the
\* issues are there, and the ledger's oldest record was pruned.
C25_Witness ==
    /\ last.op = "webhook" /\ last.handler = "route" /\ last.action = "deleted"
    /\ last.status = 200
    /\ \E r \in labels : r.name = Ui
    /\ ~ \E r \in labels : r.name = Bug
    /\ Cardinality(issues) = 2
    /\ ~ \E h \in sync_history : h.id = 1
    /\ Cardinality(OfTenant(sync_history, T1)) = KeepRecords

\* C26: when deliveries of an issues event for the same key that is not
\* stored yet overlap (each select may run before the other's upsert), the
\* stored created_at stays the one the first upsert wrote (SpecTwin).
C26_FirstUpsertKeepsCreatedAt ==
    \A w \in written.data :
        \E r \in OfTenant(issues, T1) :
            r.issue_number = w.issue_number /\ r.created_at = w.created_at

\* C27: a syncIssues call that passed the guard leaves loading false on
\* every exit path (SpecSync).
C27_LoadingResetOnEveryExit ==
    (last.op = "sync" /\ last.passedGuard) => ~state.loading

\* C28: the `since` cursor of an incremental sync is not later than the
\* moment the previous sync issued its upstream issue fetch (SpecRace).
C28_SinceNotAfterPreviousFetch ==
    [][(/\ ops' = ops + 1
        /\ last'.passedGuard /\ last'.fetched /\ last'.since # 0
        /\ last.admittedAt # 0)
       => last'.since <= last.admittedAt]_vars

\* C29: a tenant that has a successful record keeps one whatever records are
\* written afterwards, so that its next sync is incremental (SpecLedger).
C29_SuccessRecordSurvivesPruning ==
    [][\A t \in Tenants :
        ~IsFullSync(checkSyncStatus(sync_history, t))
            => ~IsFullSync(checkSyncStatus(sync_history', t))]_vars

\* C30: the cache invalidation of a sync of a tenant leaves the cache
\* entries of every other tenant as they were (SpecSync).
C30_OtherTenantsCacheKept ==
    [][(ops' = ops + 1 /\ last'.op = "sync")
       => \A k \in DOMAIN cache :
            cache[k].tenant # last'.tenant
                => (k \in DOMAIN cache' /\ cache'[k] = cache[k])]_vars

====
